---- MODULE Spec2Model ----
(***************************************************************************)
(* A model of the ray tracer: the vector kernel, Ray, Sphere and World     *)
(* intersection, the three materials, the recursive integrator             *)
(* compute_ray, Camera::draw / draw_pixel and the Canvas.                  *)
(*                                                                         *)
(* Numbers.  An f64 is modelled as a fixed-point number: the integer n     *)
(* stands for n / Unit, and every arithmetic operation rounds its result   *)
(* to the nearest representable value, as f64 arithmetic does at its own   *)
(* resolution.  f64::INFINITY is the largest integer.  A NaN can only      *)
(* arise in DialectricMaterial::scatter (sqrt of a negative number) and is *)
(* handled there.                                                          *)
(*                                                                         *)
(* Randomness.  ThreadRng is a generator whose state is threaded through   *)
(* every call by &mut: rng is that state, seeded arbitrarily.  A draw      *)
(* yields one of eight evenly spaced values of the requested range.        *)
(***************************************************************************)
EXTENDS Integers, Sequences, FiniteSets, TLC

VARIABLES
    shapes,   \* World.shapes: the Vec of objects, in insertion order
    call,     \* the last completed direct call of an operation and its result
    rng,      \* the state of the random generator
    pc,       \* the position of the program
    canvas,   \* the Canvas: [width, height, pixels], pixels a map keyed by <<x, y>>
    puts,     \* the put_pixel calls made so far, in order: [x, y, color]
    dp,       \* Camera::draw / draw_pixel locals: [i, j, s, color]
    cr,       \* compute_ray: [ray, max_depth, stack, hit, ret, caller]
    obs       \* what the current top-level compute_ray call has done so far

vars == <<shapes, call, rng, pc, canvas, puts, dp, cr, obs>>

-----------------------------------------------------------------------------
(* Bounds of the model *)

Unit == 1000
MaxShapes == 2
MaxDepth == 3
RngPeriod == 8
ImageHeight == 2
Samples == 1
MaxPuts == 3

-----------------------------------------------------------------------------
(* f64 arithmetic *)

INFINITY == 2147483647

Abs(x) == IF x < 0 THEN -x ELSE x

\* n / d rounded to the nearest integer
RDiv(n, d) ==
    IF d > 0 THEN (n + d \div 2) \div d
    ELSE ((-n) + (-d) \div 2) \div (-d)

\* the literal n/d
Num(n, d) == RDiv(n * Unit, d)

FMul(x, y) == RDiv(x * y, Unit)
FDiv(x, y) == RDiv(x * Unit, y)

RECURSIVE SqrtIter(_, _)
SqrtIter(n, x) ==
    LET y == (x + n \div x) \div 2
    IN IF y >= x THEN x ELSE SqrtIter(n, y)

\* the integer square root of n >= 0
ISqrt(n) == IF n <= 0 THEN 0 ELSE SqrtIter(n, n)

FSqrt(x) == ISqrt(x * Unit)

\* x.powi(5)
Pow5(x) == FMul(FMul(FMul(FMul(x, x), x), x), x)

\* sin and cos of the angle k * (2 pi / 8)
Sin8(k) ==
    LET h == Num(7071, 10000)
        q == k % 8
    IN CASE q = 0 -> 0
         [] q = 1 -> h
         [] q = 2 -> Unit
         [] q = 3 -> h
         [] q = 4 -> 0
         [] q = 5 -> -h
         [] q = 6 -> -Unit
         [] q = 7 -> -h

Cos8(k) == Sin8(k + 2)

-----------------------------------------------------------------------------
(* Option *)

None == [is_some |-> FALSE]
Some(v) == [is_some |-> TRUE, val |-> v]

-----------------------------------------------------------------------------
(* vector.rs *)

Vec(x, y, z) == <<x, y, z>>

VNeg(v) == <<-v[1], -v[2], -v[3]>>
VAdd(v, w) == <<v[1] + w[1], v[2] + w[2], v[3] + w[3]>>
VSub(v, w) == <<v[1] - w[1], v[2] - w[2], v[3] - w[3]>>
VMul(v, w) == <<FMul(v[1], w[1]), FMul(v[2], w[2]), FMul(v[3], w[3])>>
VScale(v, t) == <<FMul(v[1], t), FMul(v[2], t), FMul(v[3], t)>>
VDiv(v, t) == VScale(v, FDiv(Unit, t))

\* v *= t: self.0 *= t; self.1 *= t; self.2 += t
VMulAssign(v, t) == <<FMul(v[1], t), FMul(v[2], t), v[3] + t>>

\* v /= t: every component *= 1. / t
VDivAssign(v, t) ==
    <<FMul(v[1], FDiv(Unit, t)), FMul(v[2], FDiv(Unit, t)), FMul(v[3], FDiv(Unit, t))>>

LengthSquared(v) == FMul(v[1], v[1]) + FMul(v[2], v[2]) + FMul(v[3], v[3])
\* sqrt(length_squared): an f64 keeps the relative precision of a small
\* length_squared, so the squares are summed before the one rounding
Length(v) == ISqrt(v[1] * v[1] + v[2] * v[2] + v[3] * v[3])
Dot(v, w) == FMul(v[1], w[1]) + FMul(v[2], w[2]) + FMul(v[3], w[3])
Cross(v, w) ==
    << FMul(v[2], w[3]) - FMul(v[3], w[2]),
       FMul(v[3], w[1]) - FMul(v[1], w[3]),
       FMul(v[1], w[2]) - FMul(v[2], w[1]) >>
UnitOf(v) == VDiv(v, Length(v))

\* EPSILON = 1e-8 lies below the resolution of the model: a component is
\* smaller than it exactly when it is zero
EPSILON == 1
NearZero(v) == Abs(v[1]) < EPSILON /\ Abs(v[2]) < EPSILON /\ Abs(v[3]) < EPSILON

Reflect(v, normal) == VSub(v, VScale(VScale(normal, 2 * Unit), Dot(v, normal)))

\* rand_unit from its two angle draws
RandUnit(alpha, beta) ==
    Vec(FMul(Sin8(alpha), Cos8(beta)), FMul(Sin8(alpha), Sin8(beta)), Cos8(alpha))

-----------------------------------------------------------------------------
(* ray.rs *)

RayNew(origin, direction) == [origin |-> origin, direction |-> UnitOf(direction)]
RayAt(ray, t) == VAdd(ray.origin, VScale(ray.direction, t))

-----------------------------------------------------------------------------
(* hittable.rs *)

\* Range<f64>::contains
Contains(range, t) == range.start <= t /\ t < range.end

MakeHit(s, ray, t) ==
    LET point == RayAt(ray, t)
        normal == VDiv(VSub(point, s.center), s.radius)
    IN [point |-> point, normal |-> normal, distance |-> t, material |-> s.material]

\* Sphere::hit taking a tangent ray (discriminant == 0) for a hit
SphereHitTangent(s, ray, range) ==
    LET sphere_to_origin == VSub(ray.origin, s.center)
        a == LengthSquared(ray.direction)
        b == Dot(ray.direction, sphere_to_origin)
        c == LengthSquared(sphere_to_origin) - FMul(s.radius, s.radius)
        discriminant == FMul(b, b) - FMul(a, c)
    IN IF discriminant < 0 THEN None
       ELSE
         LET dis_sqrt == FSqrt(discriminant)
             t0 == FDiv(-b - dis_sqrt, a)
             t == IF ~Contains(range, t0) THEN FDiv(-b + dis_sqrt, a) ELSE t0
         IN IF ~Contains(range, t0) /\ ~Contains(range, t) THEN None
            ELSE Some(MakeHit(s, ray, t))

SphereHit(s, ray, range) ==
    LET sphere_to_origin == VSub(ray.origin, s.center)
        a == LengthSquared(ray.direction)
        b == Dot(ray.direction, sphere_to_origin)
        c == LengthSquared(sphere_to_origin) - FMul(s.radius, s.radius)
        discriminant == FMul(b, b) - FMul(a, c)
    IN IF discriminant <= 0 THEN None
       ELSE
         LET dis_sqrt == FSqrt(discriminant)
             t0 == FDiv(-b - dis_sqrt, a)
             t == IF ~Contains(range, t0) THEN FDiv(-b + dis_sqrt, a) ELSE t0
         IN IF ~Contains(range, t0) /\ ~Contains(range, t) THEN None
            ELSE Some(MakeHit(s, ray, t))

\* World::hit keeping the last object that reports a hit
RECURSIVE HitLoopLast(_, _, _, _)
HitLoopLast(rest, ray, range, closest_hit) ==
    IF rest = <<>> THEN closest_hit
    ELSE
      LET hit == SphereHit(Head(rest), ray, range)
      IN HitLoopLast(Tail(rest), ray, range, IF hit.is_some THEN hit ELSE closest_hit)

RECURSIVE HitLoop(_, _, _, _)
HitLoop(rest, ray, range, closest_hit) ==
    IF rest = <<>> THEN closest_hit
    ELSE
      LET hit == SphereHit(Head(rest), ray, range)
          keep == /\ hit.is_some
                  /\ \/ ~closest_hit.is_some
                     \/ closest_hit.val.distance > hit.val.distance
      IN HitLoop(Tail(rest), ray, range, IF keep THEN hit ELSE closest_hit)

\* World::hit with the comparison of the distances turned around
RECURSIVE HitLoopFarthest(_, _, _, _)
HitLoopFarthest(rest, ray, range, closest_hit) ==
    IF rest = <<>> THEN closest_hit
    ELSE
      LET hit == SphereHit(Head(rest), ray, range)
          keep == /\ hit.is_some
                  /\ \/ ~closest_hit.is_some
                     \/ closest_hit.val.distance < hit.val.distance
      IN HitLoopFarthest(Tail(rest), ray, range, IF keep THEN hit ELSE closest_hit)

WorldHitFarthest(shs, ray, range) == HitLoopFarthest(shs, ray, range, None)
WorldHitLast(shs, ray, range) == HitLoopLast(shs, ray, range, None)

WorldHit(shs, ray, range) == HitLoop(shs, ray, range, None)

-----------------------------------------------------------------------------
(* material.rs *)

ScatteredHit(ray, attentuation) == [ray |-> ray, attentuation |-> attentuation]

\* alpha, beta: the two angle draws of rand_unit
LambertianScatter(m, ray, hit, alpha, beta) ==
    LET bounce_direction == VAdd(hit.normal, RandUnit(alpha, beta))
        bounce_ray ==
            RayNew(hit.point,
                   IF NearZero(bounce_direction) THEN hit.normal ELSE bounce_direction)
    IN Some(ScatteredHit(bounce_ray, m.albedo))

\* MirrorMaterial::scatter with its test turned around
MirrorScatterInverted(m, ray, hit, alpha, beta) ==
    LET reflected == Reflect(ray.direction, hit.normal)
        bounce_direction == VAdd(reflected, VScale(RandUnit(alpha, beta), m.fuzziness))
    IN IF Dot(bounce_direction, hit.normal) < 0
       THEN Some(ScatteredHit(RayNew(hit.point, bounce_direction), m.albedo))
       ELSE None

MirrorScatter(m, ray, hit, alpha, beta) ==
    LET reflected == Reflect(ray.direction, hit.normal)
        bounce_direction == VAdd(reflected, VScale(RandUnit(alpha, beta), m.fuzziness))
    IN IF Dot(bounce_direction, hit.normal) > 0
       THEN Some(ScatteredHit(RayNew(hit.point, bounce_direction), m.albedo))
       ELSE None

Reflectance(cos_theta, refraction_index) ==
    LET r_root == FDiv(Unit - refraction_index, Unit + refraction_index)
        r == FMul(r_root, r_root)
    IN r + FMul(Unit - r, Pow5(Unit - cos_theta))

\* (refraction_ratio, normal): front face or back face
DialectricFace(m, ray, hit) ==
    IF Dot(ray.direction, hit.normal) < 0
    THEN [refraction_ratio |-> FDiv(Unit, m.refractive_index), normal |-> hit.normal]
    ELSE [refraction_ratio |-> m.refractive_index, normal |-> VNeg(hit.normal)]

CosTheta(m, ray, hit) == Dot(DialectricFace(m, ray, hit).normal, VNeg(ray.direction))

\* sin_theta * refraction_ratio > 1.  The square root of a negative number is
\* NaN, and every comparison with NaN is false.
TotalInternal(m, ray, hit) ==
    LET cos_theta == CosTheta(m, ray, hit)
        radicand == Unit - FMul(cos_theta, cos_theta)
    IN /\ radicand >= 0
       /\ FMul(FSqrt(radicand), DialectricFace(m, ray, hit).refraction_ratio) > Unit

\* the second operand of ||, evaluated (and its draw u taken) only when the
\* first is false
SchlickReflects(m, ray, hit, u) ==
    Reflectance(CosTheta(m, ray, hit), DialectricFace(m, ray, hit).refraction_ratio) > u

Refract(m, ray, hit) ==
    LET face == DialectricFace(m, ray, hit)
        cos_theta == CosTheta(m, ray, hit)
        refracted_perpendicular ==
            VScale(VAdd(ray.direction, VScale(face.normal, cos_theta)),
                   face.refraction_ratio)
        refracted_parallel ==
            VScale(face.normal,
                   -FSqrt(Abs(Unit - LengthSquared(refracted_perpendicular))))
    IN VAdd(refracted_parallel, refracted_perpendicular)

\* the reflection test with && in the place of ||
DialectricReflectsBoth(m, ray, hit, u) ==
    TotalInternal(m, ray, hit) /\ SchlickReflects(m, ray, hit, u)

DialectricReflects(m, ray, hit, u) ==
    TotalInternal(m, ray, hit) \/ SchlickReflects(m, ray, hit, u)

\* the branch taken and its direction; u: the uniform draw of gen_range(0.0..1.)
DialectricBounce(m, ray, hit, u) ==
    IF DialectricReflects(m, ray, hit, u)
    THEN [branch |-> "reflect",
          direction |-> Reflect(ray.direction, DialectricFace(m, ray, hit).normal)]
    ELSE [branch |-> "refract", direction |-> Refract(m, ray, hit)]

DialectricScatter(m, ray, hit, u) ==
    LET bounce_direction == DialectricBounce(m, ray, hit, u).direction
    IN Some(ScatteredHit(RayNew(hit.point, bounce_direction), Vec(Unit, Unit, Unit)))

\* dyn Material dispatch, with the draws the implementation takes
Scatter(m, ray, hit, alpha, beta, u) ==
    CASE m.kind = "Lambertian" -> LambertianScatter(m, ray, hit, alpha, beta)
      [] m.kind = "Mirror" -> MirrorScatter(m, ray, hit, alpha, beta)
      [] m.kind = "Dialectric" -> DialectricScatter(m, ray, hit, u)

-----------------------------------------------------------------------------
(* The inputs of the model: materials, spheres, rays, intervals *)

Lambertian(albedo) == [kind |-> "Lambertian", albedo |-> albedo]
Mirror(albedo, fuzziness) ==
    [kind |-> "Mirror", albedo |-> albedo, fuzziness |-> fuzziness]
Dialectric(refractive_index) ==
    [kind |-> "Dialectric", refractive_index |-> refractive_index]

Sphere(center, radius, material) ==
    [center |-> center, radius |-> radius, material |-> material]

P(x, y, z) == Vec(x * Unit, y * Unit, z * Unit)

Matte == Lambertian(Vec(Num(1, 2), Num(1, 2), Num(1, 2)))
Steel == Mirror(Vec(Num(8, 10), Num(8, 10), Num(8, 10)), Num(1, 10))
Glass == Dialectric(Num(15, 10))
Brushed == Mirror(Vec(Num(8, 10), Num(6, 10), Num(2, 10)), Num(9, 10))
Materials == {Matte, Steel, Brushed, Glass}

\* the mirror sphere of main, its reflection in the plane z = 0 (the two cut
\* each other), and a glass sphere around the camera
MirrorBall == Sphere(P(4, 2, 1), 2 * Unit, Steel)
MatteBall == Sphere(P(4, 2, -1), 2 * Unit, Matte)
GlassBubble == Sphere(P(13, 3, -9), 10 * Unit, Glass)
Spheres == {MirrorBall, MatteBall, GlassBubble}

CameraCenter == P(13, 3, 0)
CameraLookat == P(0, 1, 0)

Rays ==
    { RayNew(CameraCenter, VSub(CameraLookat, CameraCenter)),
      RayNew(P(13, 4, 1), P(-1, 0, 0)),
      RayNew(CameraCenter, P(-1, 0, 0)),
      RayNew(P(4, 2, 1), P(0, 1, 0)),
      RayNew(CameraCenter, P(0, 0, 1)),
      RayNew(CameraCenter, P(0, 1, 0)),
      RayNew(CameraCenter, P(0, -1, 0)) }

\* the interval compute_ray asks for
RenderRange == [start |-> Num(1, 100), end |-> INFINITY]

Ranges ==
    { RenderRange,
      [start |-> 0, end |-> 5 * Unit],
      [start |-> 8 * Unit, end |-> 20 * Unit] }

Draws == 0 .. 7

\* gen_range(lo..hi) for the draw k
GenRange(lo, hi, k) == lo + RDiv((hi - lo) * k, 8)

-----------------------------------------------------------------------------
(* State *)

NoCall == [op |-> "none"]
Black == Vec(0, 0, 0)

CanvasNew(width, height) ==
    [width |-> width, height |-> height, pixels |-> <<>>, default |-> Black]

Idle ==
    /\ call = NoCall
    /\ canvas = CanvasNew(0, 0)
    /\ puts = <<>>
    /\ dp = [i |-> 0, j |-> 0, s |-> 0, color |-> Black]
    /\ cr = [ray |-> None, max_depth |-> 0, stack |-> <<>>, hit |-> None, ret |-> None,
              caller |-> "none"]
    /\ obs = [depth |-> 0, ray |-> None, queries |-> 0, scatters |-> 0, atts |-> <<>>,
              terminal |-> None, ending |-> "none"]

\* World::new
WorldNew == <<>>

\* World::add
Add(s) ==
    /\ pc = "build"
    /\ Len(shapes) < MaxShapes
    /\ shapes' = Append(shapes, s)
    /\ UNCHANGED <<call, rng, pc, canvas, puts, dp, cr, obs>>

-----------------------------------------------------------------------------
(* Intersection queries on the world under construction *)

CallSphereHit(s, ray, range) ==
    /\ pc = "build"
    /\ call = NoCall
    /\ call' = [op |-> "Sphere::hit", sphere |-> s, ray |-> ray, range |-> range,
                result |-> SphereHit(s, ray, range)]
    /\ UNCHANGED <<shapes, rng, pc, canvas, puts, dp, cr, obs>>

CallWorldHit(ray, range) ==
    /\ pc = "build"
    /\ call = NoCall
    /\ call' = [op |-> "World::hit", shapes |-> shapes, ray |-> ray, range |-> range,
                result |-> WorldHit(shapes, ray, range)]
    /\ UNCHANGED <<shapes, rng, pc, canvas, puts, dp, cr, obs>>

InitHit ==
    /\ shapes = WorldNew
    /\ rng = 0
    /\ pc = "build"
    /\ Idle

NextHit ==
    \/ \E s \in Spheres : Add(s)
    \/ \E s \in Spheres, ray \in Rays, range \in Ranges : CallSphereHit(s, ray, range)
    \/ \E ray \in Rays, range \in Ranges : CallWorldHit(ray, range)

SpecHit == InitHit /\ [][NextHit]_vars

-----------------------------------------------------------------------------
(* Scattering off the surface of a sphere, for every draw *)

\* the hit of ray on the sphere s made of the material m
HitOn(s, m, ray) == SphereHit(Sphere(s.center, s.radius, m), ray, RenderRange)

CallLambertianScatter(s, m, ray, alpha, beta) ==
    /\ call = NoCall
    /\ m.kind = "Lambertian"
    /\ HitOn(s, m, ray).is_some
    /\ call' = [op |-> "scatter", material |-> m, ray |-> ray,
                hit |-> HitOn(s, m, ray).val, alpha |-> alpha, beta |-> beta,
                result |-> LambertianScatter(m, ray, HitOn(s, m, ray).val, alpha, beta)]
    /\ UNCHANGED <<shapes, rng, pc, canvas, puts, dp, cr, obs>>

CallMirrorScatter(s, m, ray, alpha, beta) ==
    /\ call = NoCall
    /\ m.kind = "Mirror"
    /\ HitOn(s, m, ray).is_some
    /\ call' = [op |-> "scatter", material |-> m, ray |-> ray,
                hit |-> HitOn(s, m, ray).val, alpha |-> alpha, beta |-> beta,
                result |-> MirrorScatter(m, ray, HitOn(s, m, ray).val, alpha, beta)]
    /\ UNCHANGED <<shapes, rng, pc, canvas, puts, dp, cr, obs>>

CallDialectricScatter(s, m, ray, k) ==
    /\ call = NoCall
    /\ m.kind = "Dialectric"
    /\ HitOn(s, m, ray).is_some
    /\ LET hit == HitOn(s, m, ray).val
           u == GenRange(0, Unit, k)
       IN call' = [op |-> "scatter", material |-> m, ray |-> ray, hit |-> hit, u |-> u,
                   branch |-> DialectricBounce(m, ray, hit, u).branch,
                   result |-> DialectricScatter(m, ray, hit, u)]
    /\ UNCHANGED <<shapes, rng, pc, canvas, puts, dp, cr, obs>>

InitMat ==
    /\ shapes = WorldNew
    /\ rng = 0
    /\ pc = "build"
    /\ Idle

NextMat ==
    \/ \E s \in Spheres, m \in Materials, ray \in Rays, alpha \in Draws, beta \in Draws :
          CallLambertianScatter(s, m, ray, alpha, beta)
    \/ \E s \in Spheres, m \in Materials, ray \in Rays, alpha \in Draws, beta \in Draws :
          CallMirrorScatter(s, m, ray, alpha, beta)
    \/ \E s \in Spheres, m \in Materials, ray \in Rays, k \in Draws :
          CallDialectricScatter(s, m, ray, k)

SpecMat == InitMat /\ [][NextMat]_vars

-----------------------------------------------------------------------------
(* The random generator *)

RngNext(g) == (5 * g + 3) % RngPeriod
\* the draw the state g yields, one of 0 .. 7
RngOut(g) == (g * 8) \div RngPeriod

RECURSIVE RngSkip(_, _)
RngSkip(g, n) == IF n = 0 THEN g ELSE RngSkip(RngNext(g), n - 1)

\* the n-th draw from the state g, counting from 0
DrawAt(g, n) == RngOut(RngSkip(g, n))

-----------------------------------------------------------------------------
(* render.rs: Camera *)

MAX_BOUNCE_DEPTH == 20

\* main.rs
ASPECT_RATIO == Num(16, 9)
VERTICAL_FOV == 60 * Unit
FOCUS_DISTANCE == 10 * Unit
DEFOCUS_ANGLE == Num(6, 10)

\* (angle / 2).to_radians().tan(), for the two angles of main
TanHalf(angle) ==
    CASE angle = VERTICAL_FOV -> Num(57735, 100000)
      [] angle = DEFOCUS_ANGLE -> Num(5236, 1000000)

CameraNew(aspect_ratio, image_height, vertical_fov, camera_center, camera_lookat, defocus_angle, focus_distance, samples) ==
    LET image_width == FMul(image_height * Unit, aspect_ratio) \div Unit
        viewport_height == FMul(FMul(2 * Unit, TanHalf(vertical_fov)), focus_distance)
        viewport_width ==
            FMul(viewport_height, FDiv(image_width * Unit, image_height * Unit))
        up == Vec(0, Unit, 0)
        camera_basis_w == UnitOf(VSub(camera_center, camera_lookat))
        camera_basis_u == UnitOf(Cross(up, camera_basis_w))
        camera_basis_v == UnitOf(Cross(camera_basis_w, camera_basis_u))
        viewport_u == VScale(camera_basis_u, viewport_width)
        viewport_v == VScale(VNeg(camera_basis_v), viewport_height)
        pixel_delta_u == VDiv(viewport_u, image_width * Unit)
        pixel_delta_v == VDiv(viewport_v, image_height * Unit)
        viewport_origin ==
            VSub(VSub(VSub(camera_center, VScale(camera_basis_w, focus_distance)),
                      VDiv(viewport_u, 2 * Unit)),
                 VDiv(viewport_v, 2 * Unit))
        defocus_disk_radius == FMul(TanHalf(defocus_angle), focus_distance)
    IN [image_height |-> image_height,
        image_width |-> image_width,
        camera_center |-> camera_center,
        pixel_delta_u |-> pixel_delta_u,
        pixel_delta_v |-> pixel_delta_v,
        pixel_00 |-> VAdd(VAdd(viewport_origin, VDiv(pixel_delta_u, 2 * Unit)),
                          VDiv(pixel_delta_v, 2 * Unit)),
        defocus_angle |-> defocus_angle,
        defocus_disk_u |-> VScale(camera_basis_u, defocus_disk_radius),
        defocus_disk_v |-> VScale(camera_basis_v, defocus_disk_radius),
        samples |-> samples]

\* the camera of main, at the resolution and sample count of the model
Camera ==
    CameraNew(ASPECT_RATIO, ImageHeight, VERTICAL_FOV, CameraCenter, CameraLookat,
              DEFOCUS_ANGLE, FOCUS_DISTANCE, Samples)

\* the number of draws sample_defocus_disk takes
DefocusDraws(camera) == IF camera.defocus_angle <= 0 THEN 0 ELSE 2

SampleDefocusDisk(camera, g) ==
    IF camera.defocus_angle <= 0 THEN camera.camera_center
    ELSE
      LET theta == DrawAt(g, 0)
          r == GenRange(0, Unit, DrawAt(g, 1))
      IN VAdd(camera.camera_center,
              VScale(VAdd(VScale(camera.defocus_disk_u, Cos8(theta)),
                          VScale(camera.defocus_disk_v, Sin8(theta))),
                     r))

\* the ray of one sample of draw_pixel(i, j), drawn from the generator state g
SampleRay(camera, i, j, g) ==
    LET pixel_center ==
            VAdd(VAdd(camera.pixel_00, VScale(camera.pixel_delta_u, i * Unit)),
                 VScale(camera.pixel_delta_v, j * Unit))
        ray_origin == SampleDefocusDisk(camera, g)
        n == DefocusDraws(camera)
        pixel_offset ==
            VAdd(VScale(camera.pixel_delta_u, GenRange(-Num(1, 2), Num(1, 2), DrawAt(g, n))),
                 VScale(camera.pixel_delta_v,
                        GenRange(-Num(1, 2), Num(1, 2), DrawAt(g, n + 1))))
        ray_direction == VSub(VAdd(pixel_center, pixel_offset), ray_origin)
    IN RayNew(ray_origin, ray_direction)

-----------------------------------------------------------------------------
(* render.rs: Canvas *)

GetPixel(cv, x, y) ==
    IF <<x, y>> \in DOMAIN cv.pixels THEN cv.pixels[<<x, y>>] ELSE cv.default

\* an insert that keeps the value already stored under the key
InsertIfAbsent(map, key, value) ==
    [k \in DOMAIN map \cup {key} |-> IF k \in DOMAIN map THEN map[k] ELSE value]

\* HashMap::insert: the new value replaces an old one
Insert(map, key, value) ==
    [k \in DOMAIN map \cup {key} |-> IF k = key THEN value ELSE map[k]]

\* put_pixel with the coordinates exchanged
PutPixelSwapped(cv, x, y, color) ==
    [cv EXCEPT !.pixels = Insert(cv.pixels, <<y, x>>, color)]

PutPixel(cv, x, y, color) ==
    [cv EXCEPT !.pixels = Insert(cv.pixels, <<x, y>>, color)]

-----------------------------------------------------------------------------
(* render.rs: compute_ray, one step at a time.  cr.stack holds, for every   *)
(* pending call of compute_ray, the attenuation its result is multiplied by *)

White == Vec(Unit, Unit, Unit)
LightBlue == Vec(Num(5, 10), Num(7, 10), Unit)

\* the colour returned for a ray that hits nothing
Sky(ray) ==
    LET a == FMul(ray.direction[2], Num(1, 2)) + Unit
    IN VAdd(VScale(White, Unit - a), VScale(LightBlue, a))

\* the cutoff one level early
DepthExhaustedAtOne(max_depth) == max_depth = 1

\* the test that ends the recursion
DepthExhausted(max_depth) == max_depth = 0

\* a recursive call with the depth unchanged
NextDepthSame(max_depth) == max_depth

\* the depth handed to the recursive call
NextDepth(max_depth) == max_depth - 1

\* the number of draws the material's scatter takes
ScatterDraws(m, ray, hit) ==
    CASE m.kind = "Lambertian" -> 2
      [] m.kind = "Mirror" -> 2
      [] m.kind = "Dialectric" -> IF TotalInternal(m, ray, hit) THEN 0 ELSE 1

\* h.material.scatter(ray, &h, rng), drawn from the generator state g
ScatterRng(m, ray, hit, g) ==
    Scatter(m, ray, hit, DrawAt(g, 0), DrawAt(g, 1), GenRange(0, Unit, DrawAt(g, 0)))

\* a call of compute_ray(ray, world, rng, max_depth) by caller
Enter(ray, max_depth, caller) ==
    /\ cr' = [ray |-> ray, max_depth |-> max_depth, stack |-> <<>>, hit |-> None,
              ret |-> None, caller |-> caller]
    /\ obs' = [depth |-> max_depth, ray |-> ray, queries |-> 0, scatters |-> 0,
               atts |-> <<>>, terminal |-> None, ending |-> "none"]
    /\ pc' = "compute"

\* if max_depth == 0 { return black }
Cutoff ==
    /\ pc = "compute"
    /\ DepthExhausted(cr.max_depth)
    /\ cr' = [cr EXCEPT !.ret = Some(Black)]
    /\ obs' = [obs EXCEPT !.terminal = Some(Black), !.ending = "exhausted"]
    /\ pc' = "return"
    /\ UNCHANGED <<shapes, call, rng, canvas, puts, dp>>

\* world.hit(..) is None: the sky colour
Miss ==
    /\ pc = "compute"
    /\ ~DepthExhausted(cr.max_depth)
    /\ ~WorldHit(shapes, cr.ray, RenderRange).is_some
    /\ cr' = [cr EXCEPT !.ret = Some(Sky(cr.ray))]
    /\ obs' = [obs EXCEPT !.queries = @ + 1, !.terminal = Some(Sky(cr.ray)),
                          !.ending = "miss"]
    /\ pc' = "return"
    /\ UNCHANGED <<shapes, call, rng, canvas, puts, dp>>

\* world.hit(..) is Some(h)
Hit ==
    /\ pc = "compute"
    /\ ~DepthExhausted(cr.max_depth)
    /\ WorldHit(shapes, cr.ray, RenderRange).is_some
    /\ cr' = [cr EXCEPT !.hit = WorldHit(shapes, cr.ray, RenderRange)]
    /\ obs' = [obs EXCEPT !.queries = @ + 1]
    /\ pc' = "scatter"
    /\ UNCHANGED <<shapes, call, rng, canvas, puts, dp>>

\* scatter is Some(s): compute_ray(&s.ray, world, rng, max_depth - 1) * s.attentuation
Bounce ==
    /\ pc = "scatter"
    /\ LET h == cr.hit.val
           scattered == ScatterRng(h.material, cr.ray, h, rng)
       IN /\ scattered.is_some
          /\ cr' = [cr EXCEPT !.ray = scattered.val.ray,
                              !.max_depth = NextDepth(cr.max_depth),
                              !.stack = Append(@, scattered.val.attentuation),
                              !.hit = None]
          /\ obs' = [obs EXCEPT !.scatters = @ + 1,
                                !.atts = Append(@, scattered.val.attentuation)]
          /\ rng' = RngSkip(rng, ScatterDraws(h.material, cr.ray, h))
    /\ pc' = "compute"
    /\ UNCHANGED <<shapes, call, canvas, puts, dp>>

\* scatter is None: black
Absorb ==
    /\ pc = "scatter"
    /\ LET h == cr.hit.val
       IN /\ ~ScatterRng(h.material, cr.ray, h, rng).is_some
          /\ rng' = RngSkip(rng, ScatterDraws(h.material, cr.ray, h))
    /\ cr' = [cr EXCEPT !.ret = Some(Black), !.hit = None]
    /\ obs' = [obs EXCEPT !.scatters = @ + 1, !.terminal = Some(Black),
                          !.ending = "absorbed"]
    /\ pc' = "return"
    /\ UNCHANGED <<shapes, call, canvas, puts, dp>>

\* a recursive call returns: its result times the pending attenuation
Unwind ==
    /\ pc = "return"
    /\ cr.stack # <<>>
    /\ cr' = [cr EXCEPT !.ret = Some(VMul(cr.ret.val, cr.stack[Len(cr.stack)])),
                        !.stack = SubSeq(@, 1, Len(@) - 1)]
    /\ UNCHANGED <<shapes, call, rng, pc, canvas, puts, dp, obs>>

-----------------------------------------------------------------------------
(* render.rs: Camera::draw and draw_pixel *)

\* let mut canvas = Canvas::new(..); the two loops start
Draw ==
    /\ pc = "build"
    /\ call = NoCall
    /\ canvas' = CanvasNew(Camera.image_width, Camera.image_height)
    /\ dp' = [i |-> 0, j |-> 0, s |-> 0, color |-> Black]
    /\ pc' = "draw"
    /\ UNCHANGED <<shapes, call, rng, puts, cr, obs>>

\* the body of the inner loop starts: draw_pixel(i, j, ..)
DrawPixel ==
    /\ pc = "draw"
    /\ dp.i < canvas.width
    /\ dp.j < canvas.height
    /\ dp' = [dp EXCEPT !.s = 0, !.color = Black]
    /\ pc' = "pixel"
    /\ UNCHANGED <<shapes, call, rng, canvas, puts, cr, obs>>

\* the inner loop is over: the next i
NextColumn ==
    /\ pc = "draw"
    /\ dp.i < canvas.width
    /\ dp.j >= canvas.height
    /\ dp' = [dp EXCEPT !.i = @ + 1, !.j = 0]
    /\ UNCHANGED <<shapes, call, rng, pc, canvas, puts, cr, obs>>

\* the outer loop is over: draw returns the canvas
DrawReturn ==
    /\ pc = "draw"
    /\ dp.i >= canvas.width
    /\ pc' = "drawn"
    /\ UNCHANGED <<shapes, call, rng, canvas, puts, dp, cr, obs>>

\* one sample: a ray through the pixel, handed to compute_ray
Sample ==
    /\ pc = "pixel"
    /\ dp.s < Camera.samples
    /\ Enter(SampleRay(Camera, dp.i, dp.j, rng), MAX_BOUNCE_DEPTH, "draw_pixel")
    /\ rng' = RngSkip(rng, DefocusDraws(Camera) + 2)
    /\ UNCHANGED <<shapes, call, canvas, puts, dp>>

\* compute_ray returns to draw_pixel: color += ..
SampleReturn ==
    /\ pc = "return"
    /\ cr.stack = <<>>
    /\ cr.caller = "draw_pixel"
    /\ dp' = [dp EXCEPT !.color = VAdd(@, cr.ret.val), !.s = @ + 1]
    /\ pc' = "pixel"
    /\ UNCHANGED <<shapes, call, rng, canvas, puts, cr, obs>>

\* color /= samples; draw_pixel returns and draw puts the pixel
PixelDone ==
    /\ pc = "pixel"
    /\ dp.s >= Camera.samples
    /\ LET color == VDivAssign(dp.color, Camera.samples * Unit)
       IN /\ canvas' = PutPixel(canvas, dp.i, dp.j, color)
          /\ puts' = Append(puts, [x |-> dp.i, y |-> dp.j, color |-> color])
    /\ dp' = [dp EXCEPT !.j = @ + 1]
    /\ pc' = "draw"
    /\ UNCHANGED <<shapes, call, rng, cr, obs>>

-----------------------------------------------------------------------------
(* compute_ray called on its own, with any depth up to MaxDepth *)

CallComputeRay(ray, max_depth) ==
    /\ pc = "build"
    /\ call = NoCall
    /\ Enter(ray, max_depth, "test")
    /\ UNCHANGED <<shapes, call, rng, canvas, puts, dp>>

ComputeRayReturn ==
    /\ pc = "return"
    /\ cr.stack = <<>>
    /\ cr.caller = "test"
    /\ call' = [op |-> "compute_ray", ray |-> obs.ray, max_depth |-> obs.depth,
                result |-> cr.ret.val]
    /\ pc' = "done"
    /\ UNCHANGED <<shapes, rng, canvas, puts, dp, cr, obs>>

Init ==
    /\ shapes = WorldNew
    /\ rng \in 0 .. RngPeriod - 1
    /\ pc = "build"
    /\ Idle

Next ==
    \/ \E s \in Spheres \ {shapes[n] : n \in DOMAIN shapes} : Add(s)
    \/ Draw
    \/ DrawPixel
    \/ NextColumn
    \/ DrawReturn
    \/ Sample
    \/ SampleReturn
    \/ PixelDone
    \/ \E ray \in Rays, max_depth \in 0 .. MaxDepth : CallComputeRay(ray, max_depth)
    \/ ComputeRayReturn
    \/ Cutoff
    \/ Miss
    \/ Hit
    \/ Bounce
    \/ Absorb
    \/ Unwind

Spec == Init /\ [][Next]_vars

-----------------------------------------------------------------------------
(* The Canvas on its own: any sequence of put_pixel, then get_pixel *)

Coords == (0 .. 1) \X (0 .. 1)
Colors == {White, LightBlue, Black}

CallPutPixel(x, y, color) ==
    /\ call = NoCall
    /\ Len(puts) < MaxPuts
    /\ canvas' = PutPixel(canvas, x, y, color)
    /\ puts' = Append(puts, [x |-> x, y |-> y, color |-> color])
    /\ UNCHANGED <<shapes, call, rng, pc, dp, cr, obs>>

CallGetPixel(x, y) ==
    /\ call = NoCall
    /\ call' = [op |-> "get_pixel", x |-> x, y |-> y, result |-> GetPixel(canvas, x, y)]
    /\ UNCHANGED <<shapes, rng, pc, canvas, puts, dp, cr, obs>>

InitCanvas ==
    /\ shapes = WorldNew
    /\ rng = 0
    /\ pc = "canvas"
    /\ call = NoCall
    /\ canvas = CanvasNew(2, 2)
    /\ puts = <<>>
    /\ dp = [i |-> 0, j |-> 0, s |-> 0, color |-> Black]
    /\ cr = [ray |-> None, max_depth |-> 0, stack |-> <<>>, hit |-> None, ret |-> None,
              caller |-> "none"]
    /\ obs = [depth |-> 0, ray |-> None, queries |-> 0, scatters |-> 0, atts |-> <<>>,
              terminal |-> None, ending |-> "none"]

NextCanvas ==
    \/ \E c \in Coords, color \in Colors : CallPutPixel(c[1], c[2], color)
    \/ \E c \in Coords : CallGetPixel(c[1], c[2])

SpecCanvas == InitCanvas /\ [][NextCanvas]_vars

-----------------------------------------------------------------------------
(* The scalar operators of Vector3 on their own: v * t, v *= t, v / t, v /= t *)

Components == {-2 * Unit, 0, Num(1, 2), Unit, 3 * Unit}
Vectors == {Vec(x, y, z) : x \in Components, y \in Components, z \in Components}
Scalars == {-Unit, Num(1, 2), 2 * Unit, 4 * Unit}

\* let w = v * t
CallMul(v, t) ==
    /\ call = NoCall
    /\ call' = [op |-> "mul", v |-> v, t |-> t, result |-> VScale(v, t)]
    /\ UNCHANGED <<shapes, rng, pc, canvas, puts, dp, cr, obs>>

\* let mut w = v; w *= t
CallMulAssign(v, t) ==
    /\ call = NoCall
    /\ call' = [op |-> "mul_assign", v |-> v, t |-> t, result |-> VMulAssign(v, t)]
    /\ UNCHANGED <<shapes, rng, pc, canvas, puts, dp, cr, obs>>

\* let w = v / t
CallDiv(v, t) ==
    /\ call = NoCall
    /\ call' = [op |-> "div", v |-> v, t |-> t, result |-> VDiv(v, t)]
    /\ UNCHANGED <<shapes, rng, pc, canvas, puts, dp, cr, obs>>

\* let mut w = v; w /= t
CallDivAssign(v, t) ==
    /\ call = NoCall
    /\ call' = [op |-> "div_assign", v |-> v, t |-> t, result |-> VDivAssign(v, t)]
    /\ UNCHANGED <<shapes, rng, pc, canvas, puts, dp, cr, obs>>

InitVec ==
    /\ shapes = WorldNew
    /\ rng = 0
    /\ pc = "vector"
    /\ Idle

NextVec ==
    \/ \E v \in Vectors, t \in Scalars : CallMul(v, t)
    \/ \E v \in Vectors, t \in Scalars : CallMulAssign(v, t)
    \/ \E v \in Vectors, t \in Scalars : CallDiv(v, t)
    \/ \E v \in Vectors, t \in Scalars : CallDivAssign(v, t)

SpecVec == InitVec /\ [][NextVec]_vars

-----------------------------------------------------------------------------
(* Claims *)

\* the objects' own answers to the query
Reported(shs, ray, range) ==
    { h \in { SphereHit(shs[k], ray, range) : k \in 1 .. Len(shs) } : h.is_some }

\* C1: World.hit returns None iff every added object returns None for the ray
\* and interval; otherwise it returns a hit one of its objects reports, no
\* farther than any other object's hit, at a distance inside the interval.
C1_WorldHitNearest ==
    call.op = "World::hit" =>
        LET reported == Reported(call.shapes, call.ray, call.range)
            res == call.result
        IN /\ (~res.is_some) <=> (reported = {})
           /\ res.is_some =>
                /\ res \in reported
                /\ \A h \in reported : res.val.distance <= h.val.distance
                /\ Contains(call.range, res.val.distance)

\* C1 witness: two objects report hits and the one added later is the nearer,
\* which World.hit returns.
C1_Witness ==
    /\ call.op = "World::hit"
    /\ Len(call.shapes) = 2
    /\ LET h1 == SphereHit(call.shapes[1], call.ray, call.range)
           h2 == SphereHit(call.shapes[2], call.ray, call.range)
       IN /\ h1.is_some /\ h2.is_some
          /\ h2.val.distance < h1.val.distance
          /\ call.result = h2

\* C2: Sphere.hit returns None when b*b - a*c <= 0; otherwise the smaller
\* root if it is inside the interval, else the larger root if that one is
\* inside the interval, else None.
C2_SphereHitRoots ==
    call.op = "Sphere::hit" =>
        LET oc == VSub(call.ray.origin, call.sphere.center)
            a == LengthSquared(call.ray.direction)
            b == Dot(call.ray.direction, oc)
            c == LengthSquared(oc) - FMul(call.sphere.radius, call.sphere.radius)
            disc == FMul(b, b) - FMul(a, c)
            small == FDiv(-b - FSqrt(disc), a)
            large == FDiv(-b + FSqrt(disc), a)
            res == call.result
        IN IF disc <= 0 THEN ~res.is_some
           ELSE IF Contains(call.range, small)
                THEN res.is_some /\ res.val.distance = small
                ELSE IF Contains(call.range, large)
                     THEN res.is_some /\ res.val.distance = large
                     ELSE ~res.is_some

\* C2 witness: a ray exactly tangent to the sphere (discriminant == 0) has
\* been tried and was a miss.
C2_Witness ==
    /\ call.op = "Sphere::hit"
    /\ LET oc == VSub(call.ray.origin, call.sphere.center)
           a == LengthSquared(call.ray.direction)
           b == Dot(call.ray.direction, oc)
           c == LengthSquared(oc) - FMul(call.sphere.radius, call.sphere.radius)
       IN FMul(b, b) - FMul(a, c) = 0
    /\ ~call.result.is_some

\* the orders in which the objects of shs can have been added
Orders(shs) ==
    LET n == Len(shs)
        perms == { p \in [1 .. n -> 1 .. n] : \A x, y \in 1 .. n : p[x] = p[y] => x = y }
    IN { [k \in 1 .. n |-> shs[p[k]]] : p \in perms }

\* the first object of shs whose hit is at the distance d
RECURSIVE FirstAt(_, _, _, _)
FirstAt(shs, ray, range, d) ==
    LET h == SphereHit(Head(shs), ray, range)
    IN IF h.is_some /\ h.val.distance = d THEN h
       ELSE FirstAt(Tail(shs), ray, range, d)

\* C9 as stated: two Worlds holding the same objects in different orders
\* return the same hit (distance, point, normal, material), ties included.
C9_OrderIrrelevant ==
    call.op = "World::hit" =>
        \A other \in Orders(call.shapes) :
            WorldHit(other, call.ray, call.range) = call.result

\* C9 amended: in every order of the same objects World.hit returns none in
\* all or a hit at the same distance in all; the hit is that of the object
\* added first among those reporting the nearest distance, so it is the same
\* in every order unless two objects report different hits at that distance.
C9_OrderUpToTies ==
    call.op = "World::hit" =>
        \A other \in Orders(call.shapes) :
            LET res == WorldHit(other, call.ray, call.range)
                nearest == { h \in Reported(call.shapes, call.ray, call.range) :
                               h.val.distance = call.result.val.distance }
            IN /\ res.is_some = call.result.is_some
               /\ res.is_some =>
                    /\ res.val.distance = call.result.val.distance
                    /\ res = FirstAt(other, call.ray, call.range, res.val.distance)
                    /\ Cardinality(nearest) = 1 => res = call.result

\* C9 witness: two objects report different hits at the same distance, and
\* the World returns the hit of the one added first.
C9_Witness ==
    /\ call.op = "World::hit"
    /\ Len(call.shapes) = 2
    /\ LET h1 == SphereHit(call.shapes[1], call.ray, call.range)
           h2 == SphereHit(call.shapes[2], call.ray, call.range)
       IN /\ h1.is_some /\ h2.is_some
          /\ h1.val.distance = h2.val.distance
          /\ h1 # h2
          /\ call.result = h1

\* C5: Lambertian and Dielectric scatter always return one outgoing ray with
\* an attenuation; Mirror scatter signals absorption exactly when
\* reflect(incoming, normal) + fuzziness * random unit vector has a dot
\* product <= 0 with the hit normal.
C5_AbsorptionOnlyMirror ==
    call.op = "scatter" =>
        LET m == call.material
            res == call.result
            one == res.is_some /\ DOMAIN res.val = {"ray", "attentuation"}
        IN CASE m.kind = "Lambertian" -> one /\ res.val.attentuation = m.albedo
             [] m.kind = "Dialectric" -> one
             [] m.kind = "Mirror" ->
                  LET perturbed ==
                          VAdd(Reflect(call.ray.direction, call.hit.normal),
                               VScale(RandUnit(call.alpha, call.beta), m.fuzziness))
                  IN /\ (~res.is_some) <=> (Dot(perturbed, call.hit.normal) <= 0)
                     /\ res.is_some => one /\ res.val.attentuation = m.albedo

\* C5 witness: a Mirror absorbed a ray whose unperturbed reflection points
\* away from the surface: the fuzz turned it back into the object.
C5_Witness ==
    /\ call.op = "scatter"
    /\ call.material.kind = "Mirror"
    /\ Dot(Reflect(call.ray.direction, call.hit.normal), call.hit.normal) > 0
    /\ ~call.result.is_some

\* C6: under total internal reflection (sin_theta * refraction_ratio > 1)
\* Dielectric scatter returns the mirror reflection about the oriented normal
\* whatever the draw; it refracts only when sin_theta * refraction_ratio <= 1
\* and the Schlick reflectance is not greater than the draw.
C6_TotalInternalReflects ==
    (call.op = "scatter" /\ call.material.kind = "Dialectric") =>
        LET m == call.material
            face == DialectricFace(m, call.ray, call.hit)
            tir == TotalInternal(m, call.ray, call.hit)
            schlick == Reflectance(CosTheta(m, call.ray, call.hit), face.refraction_ratio)
        IN /\ tir =>
                /\ call.branch = "reflect"
                /\ call.result.val.ray.direction
                       = UnitOf(Reflect(call.ray.direction, face.normal))
           /\ call.branch = "refract" => ~tir /\ schlick <= call.u

\* C6 witness: total internal reflection with a draw at or above the Schlick
\* reflectance, so that only the first condition makes the ray reflect.
C6_Witness ==
    /\ call.op = "scatter"
    /\ call.material.kind = "Dialectric"
    /\ TotalInternal(call.material, call.ray, call.hit)
    /\ Reflectance(CosTheta(call.material, call.ray, call.hit),
                   DialectricFace(call.material, call.ray, call.hit).refraction_ratio)
           <= call.u
    /\ call.branch = "reflect"

\* C3: compute_ray with depth 0 returns exactly black, whatever the scene:
\* it returns at once, without asking the world or a material.
C3_DepthZeroBlack ==
    /\ [](call.op = "compute_ray" /\ call.max_depth = 0 => call.result = Black)
    /\ [][(pc = "compute" /\ cr.max_depth = 0) =>
            /\ pc' = "return"
            /\ cr'.ret = Some(Black)
            /\ obs'.queries = obs.queries
            /\ obs'.scatters = obs.scatters]_vars

\* C3 witness: a call with depth 0 has just returned black for a ray the
\* world reports a hit for.
C3_Witness ==
    /\ pc = "return"
    /\ cr.max_depth = 0
    /\ obs.depth = 0
    /\ obs.ending = "exhausted"
    /\ cr.stack = obs.atts
    /\ cr.ret = Some(Black)
    /\ WorldHit(shapes, cr.ray, RenderRange).is_some

\* C4 as stated: on a miss compute_ray returns white*(1 - a) + (0.5,0.7,1.0)*a
\* with a = 0.5*direction.y + 0.5, and a stays in [0,1].
C4_SkyGradient ==
    obs.ending = "miss" =>
        LET a == FMul(Num(1, 2), cr.ray.direction[2]) + Num(1, 2)
        IN /\ obs.terminal = Some(VAdd(VScale(White, Unit - a), VScale(LightBlue, a)))
           /\ 0 <= a /\ a <= Unit

\* the pixels of the output resolution
Pixels == (0 .. Camera.image_width - 1) \X (0 .. Camera.image_height - 1)

\* C7: during Camera::draw put_pixel is called once for each (i, j) of the
\* output resolution and for no other coordinate: never twice, and when draw
\* returns every pixel of the canvas is set.
C7_EachPixelOnce ==
    /\ \A k \in 1 .. Len(puts) : <<puts[k].x, puts[k].y>> \in Pixels
    /\ \A k, l \in 1 .. Len(puts) :
          (puts[k].x = puts[l].x /\ puts[k].y = puts[l].y) => k = l
    /\ DOMAIN canvas.pixels = { <<puts[k].x, puts[k].y>> : k \in 1 .. Len(puts) }
    /\ pc = "drawn" =>
          /\ DOMAIN canvas.pixels = Pixels
          /\ Len(puts) = Camera.image_width * Camera.image_height

\* C7 witness: draw has returned a canvas of more than one row and column.
C7_Witness ==
    /\ pc = "drawn"
    /\ Len(puts) = Cardinality(Pixels)
    /\ Camera.image_width > 1 /\ Camera.image_height > 1
    /\ Camera.image_width # Camera.image_height

\* the colour of the last put_pixel(x, y, ..) of the log, black if there is none
RECURSIVE LastPut(_, _, _)
LastPut(log, x, y) ==
    IF log = <<>> THEN Black
    ELSE LET last == log[Len(log)]
         IN IF last.x = x /\ last.y = y THEN last.color
            ELSE LastPut(SubSeq(log, 1, Len(log) - 1), x, y)

\* C8: get_pixel(x, y) returns the colour of the most recent put_pixel(x, y, c)
\* and black for a coordinate never written, so that a put_pixel changes what
\* is read at its own coordinate only.
C8_GetReturnsLastPut ==
    /\ \A c \in Coords : GetPixel(canvas, c[1], c[2]) = LastPut(puts, c[1], c[2])
    /\ call.op = "get_pixel" => call.result = LastPut(puts, call.x, call.y)

\* C8 witness: get_pixel after two put_pixel of different colours on its
\* coordinate and one on another coordinate.
C8_Witness ==
    /\ call.op = "get_pixel"
    /\ Len(puts) = 3
    /\ puts[1].x = call.x /\ puts[1].y = call.y
    /\ puts[2].x = call.x /\ puts[2].y = call.y
    /\ puts[1].color # puts[2].color
    /\ <<puts[3].x, puts[3].y>> # <<call.x, call.y>>
    /\ call.result = puts[2].color

\* terminal times the attenuations atts[n], atts[n-1], .. down to atts[k+1]
RECURSIVE PathProduct(_, _, _)
PathProduct(terminal, atts, k) ==
    IF Len(atts) <= k THEN terminal
    ELSE PathProduct(VMul(terminal, atts[Len(atts)]), SubSeq(atts, 1, Len(atts) - 1), k)

Computing == pc \in {"compute", "scatter", "return"}

\* what a call of compute_ray has done so far, against its ghost record
C10_Path ==
    Computing =>
        /\ obs.queries <= obs.depth
        /\ obs.scatters <= obs.depth
        /\ cr.caller = "draw_pixel" => obs.depth = MAX_BOUNCE_DEPTH
        /\ pc \in {"compute", "scatter"} =>
              /\ cr.stack = obs.atts
              /\ cr.max_depth = obs.depth - Len(obs.atts)
              /\ obs.ending = "none"
        /\ pc = "return" =>
              /\ \/ /\ obs.ending = "miss"
                    /\ obs.queries = Len(obs.atts) + 1
                    /\ obs.scatters = Len(obs.atts)
                 \/ /\ obs.ending = "absorbed"
                    /\ obs.terminal = Some(Black)
                    /\ obs.queries = Len(obs.atts) + 1
                    /\ obs.scatters = Len(obs.atts) + 1
                 \/ /\ obs.ending = "exhausted"
                    /\ obs.terminal = Some(Black)
                    /\ obs.queries = obs.depth
                    /\ obs.scatters = obs.depth
                    /\ Len(obs.atts) = obs.depth
              /\ cr.ret = Some(PathProduct(obs.terminal.val, obs.atts, Len(cr.stack)))
        /\ cr.max_depth >= 0
        /\ Len(cr.stack) <= obs.depth

\* the steps compute_ray has left at most: a frame that is descending has its
\* own two steps per level and every pending multiplication, a frame that
\* is returning has the pending multiplications
Measure ==
    IF pc = "return" THEN Len(cr.stack)
    ELSE 2 * cr.max_depth + (IF pc = "compute" THEN 2 ELSE 1) + obs.depth

\* a call that has not reached its caller can take a step of its own: the
\* guards of Cutoff, Miss and Hit cover pc = "compute", those of Bounce and
\* Absorb cover pc = "scatter" with a hit to scatter from
Progress ==
    (Computing /\ ~(pc = "return" /\ cr.stack = <<>>)) =>
        \/ pc = "compute"
        \/ pc = "scatter" /\ cr.hit.is_some
        \/ pc = "return" /\ cr.stack # <<>>

\* C10: compute_ray(ray, world, rng, d) terminates (every step of a call
\* lowers a natural number and a call that has not returned can step); it
\* follows one bounce path that ends at the first miss, absorption or
\* exhaustion of the depth, with at most d world queries and d scatter calls,
\* every recursive call one level lower, and returns the terminal colour
\* times the attenuations of the path; draw_pixel calls it with depth
\* MAX_BOUNCE_DEPTH = 20.
C10_BouncePath ==
    /\ [](C10_Path /\ Progress)
    /\ [][(Computing /\ Computing') => (Measure' < Measure /\ Measure' >= 0)]_vars

\* C10 witness: a call from draw_pixel has returned after using up its depth
\* of 20 bounces.
C10_Witness ==
    /\ pc = "return"
    /\ cr.stack = <<>>
    /\ cr.caller = "draw_pixel"
    /\ obs.ending = "exhausted"
    /\ obs.scatters = 20

\* the three components of v, each times t
Scaled(v, t) == <<FMul(v[1], t), FMul(v[2], t), FMul(v[3], t)>>

\* C11 as stated: scalar scaling multiplies each of the three components by
\* the scalar; v *= t leaves v equal to v * t, and v /= t leaves v equal to
\* v / t, the components times 1 / t.
C11_ScaleInPlace ==
    /\ call.op = "mul" => call.result = Scaled(call.v, call.t)
    /\ call.op = "mul_assign" => call.result = VScale(call.v, call.t)
    /\ call.op = "div" => call.result = Scaled(call.v, FDiv(Unit, call.t))
    /\ call.op = "div_assign" => call.result = VDiv(call.v, call.t)

====
